---------------------------- MODULE Spec2Model ----------------------------
(***************************************************************************)
(* Model of rusty_bike's simulation core: the kinematics primitives        *)
(* (sim/kinematics.rs), the Morton three-parameter rider model             *)
(* (sim/morton.rs), the adaptive segment integrator and the route pacing   *)
(* driver (sim/simulation.rs).                                             *)
(*                                                                         *)
(* Numbers.  The program computes in f64.  The model computes in fixed     *)
(* point: an integer n stands for the real n / Scale, products and         *)
(* quotients truncate.  The three f64 outcomes that are not ordinary       *)
(* numbers and that the integrator can produce (x/0.0 = +-inf, 0.0/0.0 =   *)
(* NaN, inf * 0.0 = NaN) are kept: the integrator's locals force,          *)
(* step_size, new_kinetic_energy, position and time are "extended" values, *)
(* records [k |-> "num" | "inf" | "nan", v |-> value or sign].             *)
(***************************************************************************)
EXTENDS Integers, Sequences, FiniteSets, TLC

(***************************************************************************)
(* Fixed point arithmetic                                                  *)
(***************************************************************************)
Scale == 10 ^ 3

Abs(x) == IF x < 0 THEN -x ELSE x

Mul(a, b) == (a * b) \div Scale

Div(a, b) == (a * Scale) \div b

RECURSIVE ISqrtBetween(_, _, _)
ISqrtBetween(n, lo, hi) ==
    IF lo >= hi THEN lo
    ELSE CHOOSE r \in {IF mid * mid <= n THEN ISqrtBetween(n, mid, hi)
                                          ELSE ISqrtBetween(n, lo, mid - 1) :
                         mid \in {(lo + hi + 1) \div 2}} : TRUE

\* f64::sqrt on a non-negative fixed point number (floor of the root)
Sqrt(x) == ISqrtBetween(x * Scale, 0, 46340)

(***************************************************************************)
(* Extended values: the f64 results that need not be ordinary numbers      *)
(***************************************************************************)
Num(n) == [k |-> "num", v |-> n]
NaN == [k |-> "nan", v |-> 0]
Inf(s) == [k |-> "inf", v |-> s]

IsNum(a) == a.k = "num"
IsNaN(a) == a.k = "nan"
IsInf(a) == a.k = "inf"

\* The extended values.  The operations on them are functions: TLC applies a
\* function to the value of its argument.
Ext == [k : {"num", "inf", "nan"}, v : Int]

Sign(n) == IF n > 0 THEN 1 ELSE IF n < 0 THEN -1 ELSE 0

\* a + b in f64
FAdd[a \in Ext, b \in Ext] ==
    IF IsNaN(a) \/ IsNaN(b) THEN NaN
    ELSE IF IsInf(a) /\ IsInf(b) THEN (IF a.v = b.v THEN a ELSE NaN)
    ELSE IF IsInf(a) THEN a
    ELSE IF IsInf(b) THEN b
    ELSE Num(a.v + b.v)

\* -a in f64
FNeg[a \in Ext] == IF IsNaN(a) THEN NaN ELSE [a EXCEPT !.v = -a.v]

\* a - b in f64
FSub[a \in Ext, b \in Ext] == FAdd[a, FNeg[b]]

\* a * b in f64 (inf * 0.0 = NaN)
FMul[a \in Ext, b \in Ext] ==
    IF IsNaN(a) \/ IsNaN(b) THEN NaN
    ELSE IF IsInf(a) \/ IsInf(b)
         THEN (IF Sign(a.v) * Sign(b.v) = 0 THEN NaN ELSE Inf(Sign(a.v) * Sign(b.v)))
    ELSE Num(Mul(a.v, b.v))

\* a / b in f64 (x / 0.0 = +-inf, 0.0 / 0.0 = NaN, x / inf = 0.0)
FDiv[a \in Ext, b \in Ext] ==
    IF IsNaN(a) \/ IsNaN(b) THEN NaN
    ELSE IF IsInf(a) THEN (IF IsInf(b) THEN NaN
                           ELSE Inf(a.v * (IF b.v < 0 THEN -1 ELSE 1)))
    ELSE IF IsInf(b) THEN Num(0)
    ELSE IF b.v = 0 THEN (IF a.v = 0 THEN NaN ELSE Inf(Sign(a.v)))
    ELSE Num(Div(a.v, b.v))

\* f64::abs
FAbs[a \in Ext] == IF IsNaN(a) THEN NaN ELSE [a EXCEPT !.v = Abs(a.v)]

\* a > b in f64: false as soon as one side is NaN
FGt[a \in Ext, b \in Ext] ==
    /\ ~IsNaN(a)
    /\ ~IsNaN(b)
    /\ IF IsInf(a) THEN a.v = 1 /\ ~(IsInf(b) /\ b.v = 1)
       ELSE IF IsInf(b) THEN b.v = -1
       ELSE a.v > b.v

\* a >= b in f64: false as soon as one side is NaN
FGe[a \in Ext, b \in Ext] ==
    /\ ~IsNaN(a)
    /\ ~IsNaN(b)
    /\ (FGt[a, b] \/ a = b)

\* f64::sqrt
FSqrt[a \in Ext] ==
    IF IsNaN(a) THEN NaN
    ELSE IF IsInf(a) THEN (IF a.v = 1 THEN a ELSE NaN)
    ELSE IF a.v < 0 THEN NaN
    ELSE Num(Sqrt(a.v))

\* f64::max(a, b): the other operand when one is NaN
FMax[a \in Ext, b \in Ext] ==
    IF IsNaN(a) THEN b
    ELSE IF IsNaN(b) THEN a
    ELSE IF FGt[b, a] THEN b ELSE a

(***************************************************************************)
(* sim/kinematics.rs                                                       *)
(***************************************************************************)
gravity_acceleration == 9810

\* air_density(20.0, 20.0): 101325 * (1 - 0.0065*20/288.15)^5.255 / 293 / 287
AirDensityAt20 == 1202

\* air_density is only ever called with both arguments equal to the segment's
\* temperature, which is 20.0 for every segment of the model
air_density(altitude, temperature) == AirDensityAt20

\* velocity(kinetic_energy, total_mass) on an extended kinetic energy
kinematics_velocity(ke, total_mass) ==
    FSqrt[FDiv[FMul[Num(2 * Scale), FAbs[ke]], Num(total_mass)]]

kinetic_energy(v, total_mass) ==
    Mul(Mul(Mul(Scale \div 2, total_mass), v), v)

get_drag_force(v, wind_velocity, rolling_resistance, air_resistance_coef, total_mass) ==
    LET air_resistance ==
            Mul(Mul(air_resistance_coef, Abs(v + wind_velocity)), v + wind_velocity)
    IN  air_resistance + Mul(Mul(rolling_resistance, gravity_acceleration), total_mass)

\* f64::signum of an ordinary number: 1.0 for +0.0 and above, -1.0 below
Signum(x) == IF x >= 0 THEN Scale ELSE -Scale

get_total_force(ke, input_power, rolling_resistance, air_resistance_coef, wind_velocity, slope, total_mass) ==
    LET v == kinematics_velocity(Num(ke), total_mass).v
        drag_force ==
            Mul(Signum(ke),
                get_drag_force(v, wind_velocity, rolling_resistance,
                               air_resistance_coef, total_mass))
        gravity_force == Mul(Mul(gravity_acceleration, slope), total_mass)
    IN  FSub[FSub[FDiv[Num(input_power), Num(v)], Num(drag_force)],
             Num(gravity_force)]

(***************************************************************************)
(* sim/morton.rs                                                           *)
(***************************************************************************)
\* f64::MAX, the largest ordinary number: here the largest fixed point number
F64_MAX == 2147483647

\* A RiderModel.  The model's rider is a small one (3 W critical power, 10 J
\* anaerobic work capacity, 10 W maximal power) so that a segment of a metre
\* can exhaust the reserve.
Rider ==
    [critical_power |-> 3 * Scale,
     anaerobic_work_capacity |-> 10 * Scale,
     max_power |-> 10 * Scale]

RECURSIVE ExpSeries(_, _, _)
ExpSeries(y, term, k) ==
    IF term = 0 THEN 0 ELSE term + ExpSeries(y, Mul(term, y) \div k, k + 1)

\* f64::exp: for 0 >= x >= -1 the reciprocal of the series of exp(-x), below -1
\* the square of exp(x/2), above 0 the series
RECURSIVE Exp(_)
Exp(x) ==
    IF x >= 0 THEN ExpSeries(x, Scale, 1)
    ELSE IF x < -Scale THEN LET h == Exp(x \div 2) IN Mul(h, h)
    ELSE Div(Scale, ExpSeries(-x, Scale, 1))

\* a sentinel that is the least number (f64::MIN) instead of the largest
time_to_exhaustion_min(rider_model, power, current_reserve) ==
    IF power <= rider_model.critical_power THEN -F64_MAX
    ELSE LET delta_p == power - rider_model.critical_power
         IN  Div(current_reserve, delta_p)
               + Div(rider_model.anaerobic_work_capacity,
                     rider_model.critical_power - rider_model.max_power)

time_to_exhaustion(rider_model, power, current_reserve) ==
    IF power <= rider_model.critical_power THEN F64_MAX
    ELSE LET delta_p == power - rider_model.critical_power
         IN  Div(current_reserve, delta_p)
               + Div(rider_model.anaerobic_work_capacity,
                     rider_model.critical_power - rider_model.max_power)

\* a recovery toward the capacity that forgets the reserve already there
update_anaerobic_reserve_full(rider_model, power, duration, current_reserve) ==
    LET delta_p == power - rider_model.critical_power
    IN  IF delta_p > 0
        THEN current_reserve - Mul(delta_p, duration)
        ELSE current_reserve
               + Mul(rider_model.anaerobic_work_capacity,
                     Scale - Exp(Div(Mul(delta_p, duration),
                                     rider_model.anaerobic_work_capacity)))

update_anaerobic_reserve(rider_model, power, duration, current_reserve) ==
    LET delta_p == power - rider_model.critical_power
    IN  IF delta_p > 0
        THEN current_reserve - Mul(delta_p, duration)
        ELSE current_reserve
               + Mul(rider_model.anaerobic_work_capacity - current_reserve,
                     Scale - Exp(Div(Mul(delta_p, duration),
                                     rider_model.anaerobic_work_capacity)))

(***************************************************************************)
(* sim/simulation.rs: constants and models                                 *)
(***************************************************************************)
MIN_VELOCITY == 100

KINETIC_ENERGY_TOL == 2000

\* the 0.001 added to |force| in the step size
FORCE_EPSILON == 1

default_resistance_model ==
    [total_mass |-> 80 * Scale,
     cda_surface |-> 300,
     rolling_resistance |-> 4,
     drivetrain_efficiency |-> 980]

\* A RoadSegment as build_segment_vecs makes it: temperature 20, no wind,
\* roughness 1
RoadSegment(length, slope) ==
    [length |-> length, altitude |-> 0, slope |-> slope,
     temperature |-> 20 * Scale, relative_wind_speed |-> 0, roughness |-> Scale]

(***************************************************************************)
(* compute_time_and_final_velocity: one iteration of its loop              *)
(***************************************************************************)
AirResistanceCoef(road_segment, resistance_model) ==
    Mul(Mul(road_segment.relative_wind_speed, resistance_model.cda_surface),
        air_density(road_segment.temperature, road_segment.temperature))

\* lines 71-80: the force at the current velocity
Force(v, input_power, road_segment, resistance_model) ==
    get_total_force(kinetic_energy(v, resistance_model.total_mass),
                    Mul(input_power, resistance_model.drivetrain_efficiency),
                    Mul(road_segment.roughness, resistance_model.rolling_resistance),
                    AirResistanceCoef(road_segment, resistance_model),
                    road_segment.relative_wind_speed,
                    road_segment.slope,
                    resistance_model.total_mass)

\* line 81
StepSize(force) ==
    FDiv[Num(KINETIC_ENERGY_TOL), FAdd[Num(FORCE_EPSILON), FAbs[force]]]

\* lines 82-84
ClipStep(pos, step_size, length) ==
    IF FGt[FAdd[pos, step_size], Num(length)] THEN FSub[Num(length), pos]
    ELSE step_size

\* lines 85-86: the floored velocity after the step
NewVelocity(v, force, step_size, total_mass) ==
    LET new_kinetic_energy ==
            FAdd[Num(kinetic_energy(v, total_mass)), FMul[force, step_size]]
    IN  FMax[Num(MIN_VELOCITY), kinematics_velocity(new_kinetic_energy, total_mass)].v

\* line 88
ReachesEnd(pos, step_size, length) == FGe[FAdd[pos, step_size], Num(length)]

\* line 89
LastStep(pos, length) == FSub[Num(length), pos]

\* lines 90 and 93
AddTime(t, step_size, new_velocity, v) ==
    FAdd[t, FDiv[step_size, Num(Mul(Scale \div 2, new_velocity + v))]]

\* position = step_size instead of position += step_size
AdvancePositionAssigned(pos, step_size) == step_size

\* line 94
AdvancePosition(pos, step_size) == FAdd[pos, step_size]

\* line 97: the velocity the function returns, given the velocity the last
\* iteration started from and the velocity it computed
ReturnedVelocity(v, new_velocity) == v

\* Everything one iteration computes from the loop's state
Iteration(pos, t, v, input_power, road_segment, resistance_model) ==
    LET force == Force(v, input_power, road_segment, resistance_model)
        step_size == ClipStep(pos, StepSize(force), road_segment.length)
        new_velocity == NewVelocity(v, force, step_size, resistance_model.total_mass)
        break == ReachesEnd(pos, step_size, road_segment.length)
        used == IF break THEN LastStep(pos, road_segment.length) ELSE step_size
    IN  [break |-> break,
         step_size |-> used,
         new_velocity |-> new_velocity,
         time |-> AddTime(t, used, new_velocity, v),
         position |-> IF break THEN pos ELSE AdvancePosition(pos, used)]

(***************************************************************************)
(* Inputs of the model                                                     *)
(***************************************************************************)
MaxSegments == 2

\* desired powers: none, below, at and above the rider's critical power
PowerLevels == {0, 2 * Scale, 3 * Scale, 5 * Scale}

\* segment lengths: 0.02 m (one step long) and 1 m
Lengths == {20, Scale}

Slopes == {0}

Segments == {RoadSegment(l, s) : l \in Lengths, s \in Slopes}

\* entry velocities: at rest, below MIN_VELOCITY, and 1 m/s
InitialVelocities == {0, 50, Scale}

\* initial reserves: overdrawn, empty, partly and fully charged
InitialReserves == {-Scale, 0, 3 * Scale, 10 * Scale}

\* inputs of the rider model's functions taken alone
MortonPowers == {0, Scale, 3 * Scale, 4 * Scale, 12 * Scale}

MortonDurations == {0, 1, 500, 2 * Scale, 30 * Scale}

MortonReserves == {-5 * Scale, 0, 1, 4 * Scale, 10 * Scale}

(***************************************************************************)
(* State                                                                   *)
(***************************************************************************)
VARIABLES
    \* compute_all_times: parameters
    initial_velocity, initial_anaerobic_reserve, input_power_vec, road_segment_vec,
    out_duration_vec, out_power_vec, out_anaerobic_reserve,
    \* compute_all_times: locals and position in the code
    pc, phase, i, velocity, current_anaerobic_reserve, total_duration,
    new_time, new_velocity,
    \* compute_time_and_final_velocity: parameter and locals
    input_power, time, position, current_velocity, loop_new_velocity,
    \* history of the run: whether the current call has completed an iteration,
    \* the sum of the step sizes the current call added time for, and the
    \* segments re-paced so far with the power each had when it was re-paced
    stepped, step_sum, repaced,
    \* the rider model's functions taken alone: arguments, result, position
    m_pc, m_power, m_duration, m_reserve, m_result

params == <<initial_velocity, initial_anaerobic_reserve, input_power_vec, road_segment_vec>>
outs == <<out_duration_vec, out_power_vec, out_anaerobic_reserve>>
driver == <<pc, phase, i, velocity, current_anaerobic_reserve, total_duration,
            new_time, new_velocity>>
integrator == <<input_power, time, position, current_velocity, loop_new_velocity>>
history == <<stepped, step_sum, repaced>>
morton == <<m_pc, m_power, m_duration, m_reserve, m_result>>
vars == <<params, outs, driver, integrator, history, morton>>

n_segments == Len(input_power_vec)

(***************************************************************************)
(* compute_all_times                                                       *)
(***************************************************************************)
Init ==
    /\ \E n \in 1..MaxSegments :
          /\ input_power_vec \in [1..n -> PowerLevels]
          /\ road_segment_vec \in [1..n -> Segments]
          \* the caller's buffer for the powers has the route's length
          /\ out_power_vec = [k \in 1..n |-> 0]
    /\ initial_velocity \in InitialVelocities
    /\ initial_anaerobic_reserve \in InitialReserves
    /\ out_duration_vec = <<>>
    /\ out_anaerobic_reserve = <<>>
    /\ pc = "start"
    /\ phase = "none"
    /\ i = 0
    /\ velocity = 0
    /\ current_anaerobic_reserve = 0
    /\ total_duration = Num(0)
    /\ new_time = Num(0)
    /\ new_velocity = 0
    /\ input_power = 0
    /\ time = Num(0)
    /\ position = Num(0)
    /\ current_velocity = 0
    /\ loop_new_velocity = 0
    /\ stepped = FALSE
    /\ step_sum = Num(0)
    /\ repaced = {}
    /\ m_pc = "off"
    /\ m_power = 0
    /\ m_duration = 0
    /\ m_reserve = 0
    /\ m_result = 0

\* lines 123-130 and 64-66: the closure calls compute_time_and_final_velocity
\* with the segment's entry velocity and the given power
CallIntegrator(entry_velocity, power) ==
    /\ pc' = "integrate"
    /\ input_power' = power
    /\ time' = Num(0)
    /\ position' = Num(0)
    /\ current_velocity' = entry_velocity
    /\ loop_new_velocity' = 0
    /\ stepped' = FALSE
    /\ step_sum' = Num(0)

\* Vec::resize(new_len, value)
resize(vec, new_len, value) ==
    [k \in 1..new_len |-> IF k <= Len(vec) THEN vec[k] ELSE value]

\* a copy that is left out: the destination keeps its content
copy_from_slice_omitted(dst, src) == dst

\* slice::copy_from_slice: the destination becomes the source (the lengths
\* are equal, or the call panics)
copy_from_slice(dst, src) == src

\* lines 113-121, and the first segment's tentative call (line 132)
Begin ==
    /\ pc = "start"
    /\ Len(out_power_vec) = n_segments
    /\ out_duration_vec' = resize(out_duration_vec, n_segments, Num(0))
    /\ out_anaerobic_reserve' = resize(out_anaerobic_reserve, n_segments, 0)
    /\ out_power_vec' = copy_from_slice(out_power_vec, input_power_vec)
    /\ velocity' = initial_velocity
    /\ current_anaerobic_reserve' = initial_anaerobic_reserve
    /\ total_duration' = Num(0)
    /\ i' = 1
    /\ phase' = "tentative"
    /\ CallIntegrator(initial_velocity, out_power_vec'[1])
    /\ UNCHANGED <<params, new_time, new_velocity, repaced, morton>>

ThisIteration ==
    Iteration(position, time, current_velocity, input_power,
              road_segment_vec[i], default_resistance_model)

\* lines 70-96, an iteration that does not reach the segment's end
StepContinue ==
    /\ pc = "integrate"
    /\ ~ThisIteration.break
    /\ time' = ThisIteration.time
    /\ position' = ThisIteration.position
    /\ current_velocity' = ThisIteration.new_velocity
    /\ loop_new_velocity' = ThisIteration.new_velocity
    /\ stepped' = TRUE
    /\ step_sum' = FAdd[step_sum, ThisIteration.step_size]
    /\ UNCHANGED <<params, outs, driver, input_power, repaced, morton>>

\* lines 70-92 and 97, the iteration that reaches the segment's end, and the
\* return to line 132 or line 142
StepBreak ==
    /\ pc = "integrate"
    /\ ThisIteration.break
    /\ time' = ThisIteration.time
    /\ loop_new_velocity' = ThisIteration.new_velocity
    /\ stepped' = TRUE
    /\ step_sum' = FAdd[step_sum, ThisIteration.step_size]
    /\ new_time' = ThisIteration.time
    /\ new_velocity' = ReturnedVelocity(current_velocity, ThisIteration.new_velocity)
    /\ pc' = IF phase = "tentative" THEN "check" ELSE "update"
    /\ UNCHANGED <<params, outs, phase, i, velocity, current_anaerobic_reserve,
                   total_duration, input_power, position, current_velocity,
                   repaced, morton>>

\* line 133
Tau ==
    time_to_exhaustion(Rider, out_power_vec[i], current_anaerobic_reserve)

\* the comparison the wrong way round
ExhaustsReversed(tau, t) == FGt[Num(tau), t]

\* line 135
Exhausts(tau, t) == FGt[t, Num(tau)]

\* a walk that starts at the segment after the current one
RECURSIVE ClampFromNext(_, _, _)
ClampFromNext(powers, from, j) ==
    IF j + 1 > Len(powers) THEN powers
    ELSE IF powers[from] < Rider.critical_power THEN powers
    ELSE ClampFromNext([powers EXCEPT ![j + 1] = Rider.critical_power], from, j + 1)

\* lines 136-141, from position j on
RECURSIVE ClampFrom(_, _, _)
ClampFrom(powers, from, j) ==
    IF j > Len(powers) THEN powers
    ELSE IF powers[from] < Rider.critical_power THEN powers
    ELSE ClampFrom([powers EXCEPT ![j] = Rider.critical_power], from, j + 1)

\* lines 135-142: exhaustion within the segment, the powers are clamped and
\* the segment is integrated again
Repace ==
    /\ pc = "check"
    /\ Exhausts(Tau, new_time)
    /\ out_power_vec' = ClampFrom(out_power_vec, i, i)
    /\ repaced' = repaced \cup {<<i, out_power_vec[i]>>}
    /\ phase' = "rerun"
    /\ CallIntegrator(velocity, out_power_vec'[i])
    /\ UNCHANGED <<params, out_duration_vec, out_anaerobic_reserve, i, velocity,
                   current_anaerobic_reserve, total_duration, new_time,
                   new_velocity, morton>>

\* line 135, no exhaustion within the segment
NoRepace ==
    /\ pc = "check"
    /\ ~Exhausts(Tau, new_time)
    /\ pc' = "update"
    /\ UNCHANGED <<params, outs, phase, i, velocity, current_anaerobic_reserve,
                   total_duration, new_time, new_velocity, integrator, history,
                   morton>>

\* line 145
NewReserve ==
    update_anaerobic_reserve(Rider, out_power_vec[i], new_time.v,
                             current_anaerobic_reserve)

\* lines 145-155, then the next segment's tentative call (line 132) or the
\* return (line 157)
Commit ==
    /\ pc = "update"
    /\ current_anaerobic_reserve' = NewReserve
    /\ out_anaerobic_reserve' = [out_anaerobic_reserve EXCEPT ![i] = NewReserve]
    /\ out_duration_vec' = [out_duration_vec EXCEPT ![i] = new_time]
    /\ total_duration' = FAdd[total_duration, new_time]
    /\ velocity' = new_velocity
    /\ IF i < n_segments
       THEN /\ i' = i + 1
            /\ phase' = "tentative"
            /\ CallIntegrator(new_velocity, out_power_vec[i + 1])
       ELSE /\ pc' = "done"
            /\ UNCHANGED <<i, phase, integrator, stepped, step_sum>>
    /\ UNCHANGED <<params, out_power_vec, new_time, new_velocity, repaced, morton>>

Next == Begin \/ StepContinue \/ StepBreak \/ Repace \/ NoRepace \/ Commit

Spec == Init /\ [][Next]_vars

\* the program runs on until compute_all_times returns
FairSpec == Spec /\ WF_vars(Next)

(***************************************************************************)
(* The rider model's functions on their own                                *)
(***************************************************************************)
MortonInit ==
    /\ input_power_vec = <<>>
    /\ road_segment_vec = <<>>
    /\ out_power_vec = <<>>
    /\ initial_velocity = 0
    /\ initial_anaerobic_reserve = 0
    /\ out_duration_vec = <<>>
    /\ out_anaerobic_reserve = <<>>
    /\ pc = "off"
    /\ phase = "none"
    /\ i = 0
    /\ velocity = 0
    /\ current_anaerobic_reserve = 0
    /\ total_duration = Num(0)
    /\ new_time = Num(0)
    /\ new_velocity = 0
    /\ input_power = 0
    /\ time = Num(0)
    /\ position = Num(0)
    /\ current_velocity = 0
    /\ loop_new_velocity = 0
    /\ stepped = FALSE
    /\ step_sum = Num(0)
    /\ repaced = {}
    /\ m_pc = "call"
    /\ m_power \in MortonPowers
    /\ m_duration \in MortonDurations
    /\ m_reserve \in MortonReserves
    /\ m_result = 0

CallTimeToExhaustion ==
    /\ m_pc = "call"
    /\ m_result' = time_to_exhaustion(Rider, m_power, m_reserve)
    /\ m_pc' = "tau"
    /\ UNCHANGED <<params, outs, driver, integrator, history,
                   m_power, m_duration, m_reserve>>

CallUpdateAnaerobicReserve ==
    /\ m_pc = "call"
    /\ m_result' = update_anaerobic_reserve(Rider, m_power, m_duration, m_reserve)
    /\ m_pc' = "updated"
    /\ UNCHANGED <<params, outs, driver, integrator, history,
                   m_power, m_duration, m_reserve>>

MortonNext == CallTimeToExhaustion \/ CallUpdateAnaerobicReserve

MortonSpec == MortonInit /\ [][MortonNext]_vars

(***************************************************************************)
(* compute_time_and_final_velocity as a function: lines 58-98, the loop    *)
(* run to its end (for arguments on which the loop ends)                   *)
(***************************************************************************)
RECURSIVE IntegrateFrom(_, _, _, _, _, _)
IntegrateFrom(pos, t, v, power, road_segment, resistance_model) ==
    LET it == Iteration(pos, t, v, power, road_segment, resistance_model)
    IN  IF it.break
        THEN [time |-> it.time, velocity |-> ReturnedVelocity(v, it.new_velocity)]
        ELSE IntegrateFrom(it.position, it.time, it.new_velocity, power,
                           road_segment, resistance_model)

compute_time_and_final_velocity(v0, power, road_segment, resistance_model) ==
    IntegrateFrom(Num(0), Num(0), v0, power, road_segment, resistance_model)

(***************************************************************************)
(* Properties                                                              *)
(***************************************************************************)
CP == Rider.critical_power

Capacity == Rider.anaerobic_work_capacity

\* the segments whose results compute_all_times has recorded
Recorded == IF pc = "done" THEN 1..n_segments ELSE 1..(i - 1)

\* the code is between line 132 and line 155 of segment i
InSegment == pc \in {"integrate", "check", "update"}

\* The clamp the specification describes: from position j on, set the powers
\* to critical power while they are at or above it, stop at the first below.
RECURSIVE ExpectedClamp(_, _)
ExpectedClamp(powers, j) ==
    IF j > Len(powers) THEN powers
    ELSE IF powers[j] < CP THEN powers
    ELSE ExpectedClamp([powers EXCEPT ![j] = CP], j + 1)

\* C1: when exhaustion is detected at segment i, the clamping walk sets the
\* powers from i on to critical power only while the power at the walked
\* position is at or above critical power; the first position below critical
\* power and every later one keep their power.
C1_ClampStopsBelowCritical ==
    [][(pc = "check" /\ Exhausts(Tau, new_time))
          => out_power_vec' = ExpectedClamp(out_power_vec, i)]_vars

\* C2: as long as no segment has satisfied tau < time, the actual powers are
\* the desired powers, element by element; the desired powers never change.
C2_PacingIdempotence ==
    /\ []((pc # "start" /\ repaced = {}) => out_power_vec = input_power_vec)
    /\ [][input_power_vec' = input_power_vec]_vars

\* a run that returns without any re-pacing although a segment was ridden
\* above critical power
C2_Witness ==
    /\ pc = "done"
    /\ repaced = {}
    /\ \E k \in 1..n_segments : input_power_vec[k] > CP

\* C3: when tau < time at segment i, the segment is re-paced: its power
\* becomes critical power and it is integrated again from its entry velocity
\* at critical power; the duration recorded, the velocity carried on and the
\* reserve update are those of that second integration at critical power.
C3_RepaceReintegrates ==
    [][/\ (pc = "check" /\ Exhausts(Tau, new_time))
            => /\ phase' = "rerun"
               /\ pc' = "integrate"
               /\ out_power_vec'[i] = CP
               /\ input_power' = CP
               /\ current_velocity' = velocity
               /\ position' = Num(0)
               /\ time' = Num(0)
       /\ (pc = "update" /\ phase = "rerun")
            => LET r == compute_time_and_final_velocity(
                            velocity, CP, road_segment_vec[i],
                            default_resistance_model)
               IN  /\ out_power_vec'[i] = CP
                   /\ out_duration_vec'[i] = r.time
                   /\ velocity' = r.velocity
                   /\ current_anaerobic_reserve'
                        = update_anaerobic_reserve(Rider, CP, r.time.v,
                                                   current_anaerobic_reserve)
                   /\ out_anaerobic_reserve'[i] = current_anaerobic_reserve'
      ]_vars

\* a run has returned in which a segment desired above critical power was
\* re-paced and recorded at critical power with a positive duration
C3_Witness ==
    /\ pc = "done"
    /\ \E e \in repaced :
          /\ e[2] > CP
          /\ out_power_vec[e[1]] = CP
          /\ out_duration_vec[e[1]].v > 0

\* C4: at a segment whose power is at or below critical power, whatever the
\* reserve, time_to_exhaustion is the sentinel, the sentinel is not less than
\* the segment's duration, and the segment is never re-paced.
C4_NoRepaceAtOrBelowCritical ==
    /\ (pc = "check" /\ out_power_vec[i] <= CP)
          => /\ Tau = F64_MAX
             /\ ~Exhausts(Tau, new_time)
    /\ \A e \in repaced : e[2] > CP

\* the check of a segment at or below critical power with an empty or
\* overdrawn reserve
C4_Witness ==
    /\ pc = "check"
    /\ out_power_vec[i] <= CP
    /\ current_anaerobic_reserve <= 0
    /\ new_time.v > 0

\* C5: above critical power the updated reserve is exactly
\* reserve - (power - critical_power) * duration; at or below critical power,
\* from a reserve not above capacity, it is between the reserve and the
\* capacity, and it is the reserve itself at critical power.
C5_UpdateReserveRegimes ==
    m_pc = "updated" =>
        /\ m_power > CP => m_result = m_reserve - Mul(m_power - CP, m_duration)
        /\ (m_power <= CP /\ m_reserve <= Capacity)
              => /\ m_reserve <= m_result
                 /\ m_result <= Capacity
                 /\ (m_power = CP => m_result = m_reserve)

\* a recovery that raised the reserve and stayed below capacity
C5_Witness ==
    /\ m_pc = "updated"
    /\ m_power < CP
    /\ m_reserve < m_result
    /\ m_result < Capacity

\* C6: the velocity compute_time_and_final_velocity returns is the floored
\* velocity its last iteration computed.
C6_ReturnsFinalVelocity ==
    pc \in {"check", "update"} => new_velocity = loop_new_velocity

\* C7: every iteration's resulting velocity is at least MIN_VELOCITY, so the
\* force evaluations after a call's first iteration and the velocity handed
\* from one segment to the next use a velocity of at least MIN_VELOCITY.
C7_VelocityFloor ==
    /\ stepped => loop_new_velocity >= MIN_VELOCITY
    /\ (pc = "integrate" /\ stepped) => current_velocity >= MIN_VELOCITY
    /\ i > 1 => velocity >= MIN_VELOCITY
    /\ (i > 1 /\ pc = "integrate") => current_velocity >= MIN_VELOCITY

\* C8: the position never exceeds the segment's length and never decreases
\* during a call, and the step sizes a call added time for sum to the
\* segment's length.
C8_PositionWithinSegment ==
    /\ [](InSegment => ~FGt[position, Num(road_segment_vec[i].length)])
    /\ [](pc \in {"check", "update"} => step_sum = Num(road_segment_vec[i].length))
    /\ [][(pc = "integrate" /\ pc' = "integrate")
             => /\ ~FGt[position, position']
                /\ step_sum' = position']_vars

\* a call has returned after several iterations, the last one clipped
C8_Witness ==
    /\ pc = "check"
    /\ position.v > 0
    /\ position.v < road_segment_vec[i].length
    /\ step_sum = Num(road_segment_vec[i].length)

\* C9: compute_all_times returns (every call of the integrator ends).
C9_Terminates == <>(pc = "done")

\* C10: from an initial reserve within [0, capacity], every recorded reserve
\* is within [0, capacity]; a segment ridden above critical power leaves a
\* reserve of at least (power - critical_power) * capacity / (max_power -
\* critical_power), which is positive.
C10_ReserveWithinBounds ==
    (initial_anaerobic_reserve >= 0 /\ initial_anaerobic_reserve <= Capacity)
       => /\ (i >= 1 => /\ current_anaerobic_reserve >= 0
                        /\ current_anaerobic_reserve <= Capacity)
          /\ \A k \in Recorded :
                /\ out_anaerobic_reserve[k] >= 0
                /\ out_anaerobic_reserve[k] <= Capacity
                /\ out_power_vec[k] > CP
                      => /\ out_anaerobic_reserve[k] > 0
                         /\ out_anaerobic_reserve[k]
                              >= Div(Mul(out_power_vec[k] - CP, Capacity),
                                     Rider.max_power - CP)

\* a run has returned in which a segment was ridden above critical power and
\* drew on the reserve
C10_Witness ==
    /\ pc = "done"
    /\ initial_anaerobic_reserve >= 0
    /\ initial_anaerobic_reserve <= Capacity
    /\ \E k \in 1..n_segments :
          /\ out_power_vec[k] > CP
          /\ out_anaerobic_reserve[k] < initial_anaerobic_reserve

=============================================================================
